---- MODULE Spec2Model ----
(***************************************************************************)
(* Spiritual Count: the service worker (src/sw.js).                        *)
(*                                                                         *)
(* State: the origin's cache storage (named caches in creation order),     *)
(* the worker's lifecycle as the host drives it, the promise chains of the *)
(* install and activate listeners, the fetch-handling units in flight and  *)
(* the control messages with their reply ports.                            *)
(*                                                                         *)
(* Every await of the source is a step of its own: the event loop may run  *)
(* any other ready unit between two awaits.  The outcome of a network      *)
(* fetch and of a cache-storage operation (resolve or reject) is chosen by *)
(* the environment.                                                        *)
(***************************************************************************)
EXTENDS Integers, Sequences, FiniteSets, TLC

(***************************************************************************)
(* Bounds of the model.                                                    *)
(***************************************************************************)
MaxStale == 1       \* stale namespaces that may exist before install
MaxUnits == 2       \* fetch events the host dispatches
MaxMsgs == 2        \* control messages the page sends
MaxDeploys == 1     \* times the site's content changes on the network
MaxInstalls == 2    \* install phases the host runs (update with the same script)
MaxEvents == 3      \* calls of handleTrackerAction in one visit of the page

(***************************************************************************)
(* Paths are sequences of characters, so that suffix tests are computed.   *)
(***************************************************************************)
P_root == <<"/">>
P_index == <<"/", "i", "n", "d", "e", "x", ".", "h", "t", "m", "l">>
P_about == <<"/", "a", "b", "o", "u", "t", ".", "h", "t", "m", "l">>
P_tracker == <<"/", "t", "r", "a", "c", "k", "e", "r", ".", "h", "t", "m", "l">>
P_themes == <<"/", "t", "h", "e", "m", "e", "s", ".", "h", "t", "m", "l">>
P_contact == <<"/", "c", "o", "n", "t", "a", "c", "t", ".", "h", "t", "m", "l">>
P_style == <<"/", "s", "t", "y", "l", "e", ".", "c", "s", "s">>
P_script == <<"/", "s", "c", "r", "i", "p", "t", ".", "j", "s">>
P_manifest == <<"/", "m", "a", "n", "i", "f", "e", "s", "t", ".", "j", "s", "o", "n">>
P_favicon == <<"/", "f", "a", "v", "i", "c", "o", "n", ".", "i", "c", "o">>
P_api == <<"/", "a", "p", "i", "/", "d", "a", "t", "a">>
P_lib == <<"/", "l", "i", "b", ".", "j", "s">>

CACHE_NAME == "spiritual-count-v1"
CACHE_VERSION == "1.0.0"
CORE_ASSETS == <<P_root, P_index, P_about, P_tracker, P_themes, P_contact, P_style, P_script>>
OPTIONAL_ASSETS == <<P_manifest, P_favicon>>

Range(s) == {s[i] : i \in DOMAIN s}

(***************************************************************************)
(* The asset classifier.                                                   *)
(***************************************************************************)
EndsWith(p, ext) ==
    /\ Len(p) >= Len(ext)
    /\ SubSeq(p, Len(p) - Len(ext) + 1, Len(p)) = ext

staticExtensions ==
    << <<".", "c", "s", "s">>, <<".", "j", "s">>, <<".", "j", "s", "o", "n">>,
       <<".", "i", "c", "o">>, <<".", "p", "n", "g">>, <<".", "j", "p", "g">>,
       <<".", "j", "p", "e", "g">>, <<".", "s", "v", "g">>,
       <<".", "w", "o", "f", "f">>, <<".", "w", "o", "f", "f", "2">> >>

isStaticAsset(pathname) ==
    \E i \in DOMAIN staticExtensions : EndsWith(pathname, staticExtensions[i])

\* mutant: only the suffix is tested, the root path is not a page
isHTMLPageSuffixOnly(pathname) == EndsWith(pathname, <<".", "h", "t", "m", "l">>)

isHTMLPage(pathname) ==
    EndsWith(pathname, <<".", "h", "t", "m", "l">>) \/ pathname = <<"/">>

(***************************************************************************)
(* Cache storage: a sequence of named caches in creation order; a cache    *)
(* maps a request key (the path of a same-origin GET) to a stored          *)
(* response.  A stored response keeps the status and the body; the body is *)
(* identified by the deployment it was served from.                        *)
(***************************************************************************)
NoEntries == [k \in {} |-> 0]
Absent == [origin |-> "absent", status |-> 0, ctype |-> "", ver |-> 0, text |-> ""]

Names(cs) == {cs[i].name : i \in DOMAIN cs}
CacheHas(cs, n) == n \in Names(cs)
CacheKeys(cs) == [i \in DOMAIN cs |-> cs[i].name]
\* mutant: open always creates a cache, also when one of that name exists
CacheOpenDuplicate(cs, n) == Append(cs, [name |-> n, entries |-> [k \in {} |-> 0]])

CacheOpen(cs, n) == IF CacheHas(cs, n) THEN cs ELSE Append(cs, [name |-> n, entries |-> NoEntries])
IsNot(c, n) == c.name # n
CacheDelete(cs, n) == SelectSeq(cs, LAMBDA c : IsNot(c, n))
CachePut(cs, n, k, e) ==
    [i \in DOMAIN cs |->
        IF cs[i].name = n THEN [cs[i] EXCEPT !.entries = (k :> e) @@ @] ELSE cs[i]]
EntriesOf(cs, n) ==
    IF CacheHas(cs, n)
    THEN (CHOOSE c \in Range(cs) : c.name = n).entries
    ELSE NoEntries

\* caches.match(request): every cache is searched, in creation order.
Holders(cs, k) == {i \in DOMAIN cs : k \in DOMAIN cs[i].entries}
First(S) == CHOOSE i \in S : \A j \in S : i <= j
CacheMatch(cs, k) ==
    IF Holders(cs, k) = {}
    THEN Absent
    ELSE LET e == cs[First(Holders(cs, k))].entries[k]
         IN  [origin |-> "cache", status |-> e.status, ctype |-> "stored", ver |-> e.ver, text |-> ""]

\* the cache entry caches.match(request) answers from: its namespace and its key
NoHit == [ns |-> "", key |-> <<>>]
MatchedIn(cs, k) ==
    IF Holders(cs, k) = {} THEN NoHit
    ELSE [ns |-> cs[First(Holders(cs, k))].name, key |-> k]

\* mutant: the response itself is stored after its body was handed on, the
\* stored entry has the status and an empty body
StoredCopyEmptied(r) == [status |-> r.status, ver |-> 0]

\* response.clone(), as the cache keeps it
StoredCopy(r) == [status |-> r.status, ver |-> r.ver]

(***************************************************************************)
(* Responses.                                                              *)
(***************************************************************************)
NetResponse(status, v) ==
    [origin |-> "network", status |-> status, ctype |-> "served", ver |-> v, text |-> ""]
IsOk(r) == r.status >= 200 /\ r.status <= 299

(***************************************************************************)
(* Requests the page can issue.                                            *)
(***************************************************************************)
SELF_ORIGIN == "https://spiritual-count.example"
CDN_ORIGIN == "https://cdn.example"
Req(m, o, p) == [method |-> m, origin |-> o, path |-> p]
Requests ==
    { Req("GET", SELF_ORIGIN, P_style), Req("GET", SELF_ORIGIN, P_about),
      Req("GET", SELF_ORIGIN, P_api), Req("POST", SELF_ORIGIN, P_api),
      Req("GET", CDN_ORIGIN, P_lib) }
NoReq == Req("", "", <<>>)

\* a wider set of requests, for the listener's own decisions: every extension of
\* the classifier, near misses of them (case, a missing or an extra character,
\* a trailing slash, two extensions), other methods and other origins
AnyPaths ==
    { P_root, P_about, P_style, P_script, P_manifest, P_favicon, P_api,
      <<"/", "a", ".", "p", "n", "g">>,
      <<"/", "a", ".", "j", "p", "g">>,
      <<"/", "a", ".", "j", "p", "e", "g">>,
      <<"/", "a", ".", "s", "v", "g">>,
      <<"/", "a", ".", "w", "o", "f", "f">>,
      <<"/", "a", ".", "w", "o", "f", "f", "2">>,
      <<"/", "a", ".", "C", "S", "S">>,
      <<"/", "a", ".", "H", "T", "M", "L">>,
      <<"/", "a", ".", "h", "t", "m">>,
      <<"/", "a", ".", "h", "t", "m", "l", "/">>,
      <<"/", "a", ".", "c", "s", "s", ".", "h", "t", "m", "l">>,
      <<"/", "a", ".", "h", "t", "m", "l", ".", "j", "s">>,
      <<"/", "d", "/">>,
      <<"/", "a", ".", "w", "o", "f", "f", "3">>,
      <<"/", "a", ".", "J", "s">>,
      <<"/", "c", "s", "s">>,
      <<"/", "a", ".", "c", "s", "s", "/">>,
      <<"/", "a", ".", "j", "p">>,
      <<"/", ".", "h", "t", "m", "l">>,
      <<"/", "h", "t", "m", "l">> }
AnyRequests ==
    { Req("GET", SELF_ORIGIN, p) : p \in AnyPaths } \cup
    { Req("POST", SELF_ORIGIN, P_api), Req("POST", SELF_ORIGIN, P_style),
      Req("HEAD", SELF_ORIGIN, P_about),
      Req("GET", CDN_ORIGIN, P_lib), Req("GET", CDN_ORIGIN, P_about) }

MessageTypes == {"GET_VERSION", "SKIP_WAITING", "CACHE_STATUS", "bogus", "none"}

VARIABLES
    caches,         \* cache storage of the origin
    netVer,         \* the deployment the network currently serves
    wstate,         \* lifecycle state of the worker, as the host sees it
    installRuns,    \* install phases started so far
    ipc,            \* position of the install listener's promise chain
    iopt,           \* next optional asset of the install chain
    ifail,          \* why the install chain rejected ("" when it did not)
    installPromise, \* the promise handed to event.waitUntil by install
    skipWaiting,    \* the host's skip-waiting flag of this worker
    apc,            \* position of the activate listener's promise chain
    akeys,          \* the cache names caches.keys() answered
    afail,          \* whether a storage operation of the activate chain rejected
    controller,     \* who controls the open clients
    units,          \* fetch-handling units, one per dispatched fetch event
    netCalls,       \* network fetches issued by the strategy executors
    msgs,           \* control messages and the replies posted on their ports
    ilog,           \* history: what the environment answered to the steps of this
                    \*          install phase and of the one before it
    iout,           \* history: the current namespace as these install phases left it
    app,           \* the page script: state.trackers and the closures of the
                    \*          long-press listeners of the increment buttons
    localStorage,   \* what the page script has persisted
    clock,          \* the time the page script reads (new Date())
    plog            \* history: the last call of handleTrackerAction, the calls of
                    \*          storage.set so far, the count at the last mousedown

lifecycleVars == <<wstate, installRuns, ipc, iopt, ifail, installPromise, skipWaiting, apc, akeys, afail, controller>>
history == <<ilog, iout>>
appVars == <<app, localStorage, clock, plog>>
workerVars == <<caches, netVer, lifecycleVars, units, netCalls, msgs, history>>
vars == <<workerVars, appVars>>

(***************************************************************************)
(* Initial states: the script has been registered and the host has         *)
(* dispatched the install event.  Earlier versions of the application may  *)
(* have left caches behind, and an earlier install of this version may     *)
(* have left the current one.                                              *)
(***************************************************************************)
StaleNames == <<"spiritual-count-v0", "spiritual-count-beta", "spiritual-count-old">>
OldEntry == [status |-> 200, ver |-> 0]
StaleEntries == (P_style :> OldEntry) @@ (P_index :> OldEntry)
CurrentLeftover == (P_index :> OldEntry)

StaleCaches(k) == [i \in 1..k |-> [name |-> StaleNames[i], entries |-> StaleEntries]]

InitialCaches ==
    { StaleCaches(k) : k \in 0..MaxStale } \cup
    { Append(StaleCaches(k), [name |-> CACHE_NAME, entries |-> CurrentLeftover]) : k \in 0..MaxStale }

IdleUnit == [pc |-> "idle", req |-> NoReq, strategy |-> "", calls |-> 0,
             first |-> "", net |-> Absent, store |-> "", look1 |-> "", look2 |-> "",
             hit |-> NoHit, result |-> Absent]
UnsentMsg == [type |-> "", pc |-> "unsent", skipped |-> FALSE, replies |-> <<>>]

WorkerInit ==
    /\ caches \in InitialCaches
    /\ netVer = 1
    /\ wstate = "installing"
    /\ installRuns = 1
    /\ ipc = "open"
    /\ iopt = 1
    /\ ifail = ""
    /\ installPromise = "pending"
    /\ skipWaiting = FALSE
    /\ apc = "idle"
    /\ akeys = <<>>
    /\ afail = FALSE
    /\ controller = IF caches = <<>> THEN "none" ELSE "previous"
    /\ units = [u \in 1..MaxUnits |-> IdleUnit]
    /\ netCalls = 0
    /\ msgs = [m \in 1..MaxMsgs |-> UnsentMsg]
    /\ ilog = << <<>> >>
    /\ iout = <<>>

(***************************************************************************)
(* The page script (src/unnamed/part_000): the trackers, what is persisted *)
(* in localStorage, and the long-press listeners of the increment buttons. *)
(* Values pass through JSON.stringify and JSON.parse on their way to and   *)
(* from localStorage; the values stored here are strings and small         *)
(* integers, which that round trip gives back unchanged.                   *)
(***************************************************************************)
TrackerIds == {"morning-dhikr", "evening-dhikr"}
UnknownId == "deleted-tracker"
TrackerName(id) == IF id = "morning-dhikr" THEN "Morning Dhikr" ELSE "Evening Dhikr"
TrackerPhrase(id) == IF id = "morning-dhikr" THEN "SubhanAllah" ELSE "Alhamdulillah"
TrackerActions == {"increment", "increment-10", "decrement", "reset", "other"}
DEFAULT_TRACKERS == [id \in TrackerIds |-> 0]
RECENT_LIMIT == 10

\* a key of localStorage that holds nothing (getItem answers null)
Unset == [id \in {} |-> 0]
NoCall == [id |-> "", action |-> ""]
NoPress == [id \in TrackerIds |-> "null"]

\* a first visit: nothing persisted, the default trackers
PageFirstVisit ==
    /\ app = [trackers |-> DEFAULT_TRACKERS, pressTimer |-> NoPress,
               longPressTriggered |-> [id \in TrackerIds |-> FALSE],
               held |-> "none", clickDue |-> "none"]
    /\ localStorage = [trackers |-> Unset, recent |-> <<>>]
    /\ clock = 0
    /\ plog = [lastCall |-> NoCall, setCalls |-> 0, pressCount |-> 0]

\* a later visit: trackerManager.init loads what an earlier visit persisted;
\* the recent counts are a list addToRecentCounts wrote, newest first
SavedTrackers == ("morning-dhikr" :> 3) @@ ("evening-dhikr" :> 1)
OldRecent(n) ==
    [i \in 1..n |-> [tracker |-> "Morning Dhikr", phrase |-> "SubhanAllah",
                     time |-> 1 - i, count |-> 1]]
PageLoaded ==
    /\ localStorage \in [trackers : {Unset, SavedTrackers},
                         recent : {OldRecent(n) : n \in {0, RECENT_LIMIT - 1, RECENT_LIMIT}}]
    /\ app = [trackers |-> IF localStorage.trackers = Unset
                            THEN DEFAULT_TRACKERS ELSE localStorage.trackers,
               pressTimer |-> NoPress,
               longPressTriggered |-> [id \in TrackerIds |-> FALSE],
               held |-> "none", clickDue |-> "none"]
    /\ clock = 0
    /\ plog = [lastCall |-> NoCall, setCalls |-> 0, pressCount |-> 0]

Init == WorkerInit /\ PageFirstVisit
AppInit == WorkerInit /\ caches = <<>> /\ PageLoaded

Max(a, b) == IF a >= b THEN a ELSE b

\* recentCounts.unshift(entry) and recentCounts.splice(10)
Unshift(list, e) == <<e>> \o list
\* mutant: the list is cut after the entry at index 10, not before it
SpliceAfter(list, n) == IF Len(list) > n + 1 THEN SubSeq(list, 1, n + 1) ELSE list

Splice(list, n) == IF Len(list) > n THEN SubSeq(list, 1, n) ELSE list

\* mutant: decrement subtracts one, without Math.max(0, ...)
CountAfterNoFloor(count, action) ==
    IF action = "increment" THEN count + 1
    ELSE IF action = "increment-10" THEN count + 10
    ELSE IF action = "decrement" THEN count - 1
    ELSE IF action = "reset" THEN 0
    ELSE count

\* the switch of handleTrackerAction
CountAfter(count, action) ==
    IF action = "increment" THEN count + 1
    ELSE IF action = "increment-10" THEN count + 10
    ELSE IF action = "decrement" THEN Max(0, count - 1)
    ELSE IF action = "reset" THEN 0
    ELSE count

\* addToRecentCounts: got is whether storage.get read the list (the default []
\* otherwise), put whether storage.set stored the new one
RecentAfter(recent, id, now, got, put) ==
    LET list == IF got THEN recent ELSE <<>>
        entry == [tracker |-> TrackerName(id), phrase |-> TrackerPhrase(id),
                  time |-> now, count |-> 1]
    IN  IF put THEN Splice(Unshift(list, entry), RECENT_LIMIT) ELSE recent

\* handleTrackerAction(trackerId, action), called while the page is pg
handleTrackerAction(pg, id, action) ==
    /\ clock < MaxEvents
    /\ clock' = clock + 1
    /\ IF id \notin DOMAIN pg.trackers
       THEN /\ app' = pg
            /\ UNCHANGED localStorage
            /\ plog' = [plog EXCEPT !.lastCall = [id |-> id, action |-> action]]
       ELSE LET adds == action \in {"increment", "increment-10"}
                trackers == [pg.trackers EXCEPT ![id] = CountAfter(@, action)]
            IN  /\ app' = [pg EXCEPT !.trackers = trackers]
                /\ \E saved \in BOOLEAN, got \in (IF adds THEN BOOLEAN ELSE {TRUE}),
                       put \in (IF adds THEN BOOLEAN ELSE {TRUE}) :
                     localStorage' =
                        [trackers |-> IF saved THEN trackers ELSE localStorage.trackers,
                         recent |-> IF adds
                                    THEN RecentAfter(localStorage.recent, id, clock + 1, got, put)
                                    ELSE localStorage.recent]
                /\ plog' = [plog EXCEPT !.lastCall = [id |-> id, action |-> action],
                                        !.setCalls = @ + (IF adds THEN 2 ELSE 1)]

\* a click on a button of a card, or a call for a tracker that is gone
TrackerAction(id, action) ==
    /\ app.held = "none" /\ app.clickDue = "none"
    /\ handleTrackerAction(app, id, action)
    /\ UNCHANGED workerVars

\* the long-press listeners of the increment button of tracker b
MouseDown(b) ==
    /\ app.held = "none" /\ app.clickDue = "none"
    /\ app' = [app EXCEPT !.longPressTriggered[b] = FALSE, !.pressTimer[b] = "pending",
                            !.held = b]
    /\ plog' = [plog EXCEPT !.pressCount = app.trackers[b]]
    /\ UNCHANGED <<localStorage, clock, workerVars>>

\* the timer of setTimeout(..., 1000) runs
PressTimer(b) ==
    /\ app.pressTimer[b] = "pending"
    /\ handleTrackerAction([app EXCEPT !.longPressTriggered[b] = TRUE,
                                        !.pressTimer[b] = "fired"], b, "increment-10")
    /\ UNCHANGED workerVars

ClearTimeout(timer) == IF timer = "pending" THEN "cleared" ELSE timer

\* mouseup over the button: the timer is cleared; the browser then dispatches
\* the click of this press
MouseUp(b) ==
    /\ app.held = b
    /\ app' = [app EXCEPT !.pressTimer[b] = ClearTimeout(@), !.held = "none",
                            !.clickDue = b]
    /\ UNCHANGED <<localStorage, clock, plog, workerVars>>

\* the pointer leaves the button while it is held: no click follows
MouseLeave(b) ==
    /\ app.held = b
    /\ app' = [app EXCEPT !.pressTimer[b] = ClearTimeout(@), !.held = "none"]
    /\ UNCHANGED <<localStorage, clock, plog, workerVars>>

\* the click listener of the increment button, for the click of a press
ClickEvent(b) ==
    /\ app.clickDue = b
    /\ handleTrackerAction([app EXCEPT !.clickDue = "none"], b, "increment")
    /\ UNCHANGED workerVars

AppNext ==
    \/ \E id \in TrackerIds \cup {UnknownId}, action \in TrackerActions : TrackerAction(id, action)
    \/ \E b \in TrackerIds :
          MouseDown(b) \/ PressTimer(b) \/ MouseUp(b) \/ MouseLeave(b) \/ ClickEvent(b)
AppSpec == AppInit /\ [][AppNext]_vars

(***************************************************************************)
(* The install listener (one step per link of its promise chain).          *)
(***************************************************************************)
RECURSIVE PutAll(_, _, _, _)
PutAll(cs, n, keys, e) ==
    IF keys = <<>> THEN cs
    ELSE PutAll(CachePut(cs, n, Head(keys), e), n, Tail(keys), e)

\* cache.addAll(urls): every url is fetched; all responses are stored, or none.
CacheAddAll(cs, n, urls, v) == PutAll(cs, n, urls, [status |-> 200, ver |-> v])

\* what a rejected link of the install chain leads to: the chain's final catch
InstallRejected(why) ==
    /\ ipc' = "catch"
    /\ ifail' = why

InstallOpen(a) ==
    /\ wstate = "installing" /\ ipc = "open"
    /\ a \in {"ok", "rejected"}
    /\ IF a = "ok"
       THEN /\ caches' = CacheOpen(caches, CACHE_NAME)
            /\ ipc' = "addAll"
            /\ UNCHANGED ifail
       ELSE /\ InstallRejected("open")
            /\ UNCHANGED caches
    /\ UNCHANGED <<netVer, wstate, installRuns, iopt, installPromise, skipWaiting,
                   apc, akeys, afail, controller, units, netCalls, msgs>>

\* cache.addAll(CORE_ASSETS): rejects when the fetch of any entry fails or answers
\* a status that is not ok, or when storing fails
InstallAddAll(a) ==
    /\ wstate = "installing" /\ ipc = "addAll"
    /\ a \in {"ok", "core_fetch", "core_status", "core_store"}
    /\ IF a = "ok"
       THEN /\ caches' = CacheAddAll(caches, CACHE_NAME, CORE_ASSETS, netVer)
            /\ ipc' = "open2"
            /\ UNCHANGED ifail
       ELSE /\ InstallRejected(a)
            /\ UNCHANGED caches
    /\ UNCHANGED <<netVer, wstate, installRuns, iopt, installPromise, skipWaiting,
                   apc, akeys, afail, controller, units, netCalls, msgs>>

InstallReopen(a) ==
    /\ wstate = "installing" /\ ipc = "open2"
    /\ a \in {"ok", "rejected"}
    /\ IF a = "ok"
       THEN /\ caches' = CacheOpen(caches, CACHE_NAME)
            /\ ipc' = "optional"
            /\ iopt' = 1
            /\ UNCHANGED ifail
       ELSE /\ InstallRejected("open2")
            /\ UNCHANGED <<caches, iopt>>
    /\ UNCHANGED <<netVer, wstate, installRuns, installPromise, skipWaiting,
                   apc, akeys, afail, controller, units, netCalls, msgs>>

\* mutant: the failure of an optional asset is not caught and rejects the chain
InstallOptionalStrict(a) ==
    /\ wstate = "installing" /\ ipc = "optional"
    /\ a \in {"stored", "store_failed", "not_ok", "fetch_failed"}
    /\ caches' = IF a = "stored"
                 THEN CachePut(caches, CACHE_NAME, OPTIONAL_ASSETS[iopt],
                               [status |-> 200, ver |-> netVer])
                 ELSE caches
    /\ IF a \in {"store_failed", "fetch_failed"}
       THEN InstallRejected(a) /\ UNCHANGED iopt
       ELSE /\ UNCHANGED ifail
            /\ IF iopt < Len(OPTIONAL_ASSETS)
               THEN iopt' = iopt + 1 /\ ipc' = "optional"
               ELSE iopt' = iopt /\ ipc' = "skipWaiting"
    /\ UNCHANGED <<netVer, wstate, installRuns, installPromise, skipWaiting,
                   apc, akeys, afail, controller, units, netCalls, msgs>>

\* mutant: the test of response.ok is missing, an optional asset is stored
\* whatever status the network answered
InstallOptionalStoresAny(a) ==
    /\ wstate = "installing" /\ ipc = "optional"
    /\ a \in {"stored", "store_failed", "not_ok", "fetch_failed"}
    /\ caches' = IF a = "stored"
                 THEN CachePut(caches, CACHE_NAME, OPTIONAL_ASSETS[iopt],
                               [status |-> 200, ver |-> netVer])
                 ELSE IF a = "not_ok"
                 THEN CachePut(caches, CACHE_NAME, OPTIONAL_ASSETS[iopt],
                               [status |-> 404, ver |-> netVer])
                 ELSE caches
    /\ IF iopt < Len(OPTIONAL_ASSETS)
       THEN iopt' = iopt + 1 /\ ipc' = "optional"
       ELSE iopt' = iopt /\ ipc' = "skipWaiting"
    /\ UNCHANGED <<netVer, wstate, installRuns, ifail, installPromise, skipWaiting,
                   apc, akeys, afail, controller, units, netCalls, msgs>>

\* one optional asset: fetch, store when ok; every failure is caught
InstallOptional(a) ==
    /\ wstate = "installing" /\ ipc = "optional"
    /\ a \in {"stored", "store_failed", "not_ok", "fetch_failed"}
    /\ caches' = IF a = "stored"
                 THEN CachePut(caches, CACHE_NAME, OPTIONAL_ASSETS[iopt],
                               [status |-> 200, ver |-> netVer])
                 ELSE caches
    /\ IF iopt < Len(OPTIONAL_ASSETS)
       THEN iopt' = iopt + 1 /\ ipc' = "optional"
       ELSE iopt' = iopt /\ ipc' = "skipWaiting"
    /\ UNCHANGED <<netVer, wstate, installRuns, ifail, installPromise, skipWaiting,
                   apc, akeys, afail, controller, units, netCalls, msgs>>

InstallSkipWaiting ==
    /\ wstate = "installing" /\ ipc = "skipWaiting"
    /\ skipWaiting' = TRUE
    /\ ipc' = "settled"
    /\ installPromise' = "fulfilled"
    /\ UNCHANGED <<caches, netVer, wstate, installRuns, iopt, ifail,
                   apc, akeys, afail, controller, units, netCalls, msgs>>

\* mutant: the final handler runs on success and on failure alike (a .finally)
\* and signals skip-waiting in both
InstallCatchSkipsWaiting ==
    /\ wstate = "installing" /\ ipc = "catch"
    /\ skipWaiting' = TRUE
    /\ ipc' = "settled"
    /\ installPromise' = "fulfilled"
    /\ UNCHANGED <<caches, netVer, wstate, installRuns, iopt, ifail,
                   apc, akeys, afail, controller, units, netCalls, msgs>>

\* the final .catch of the chain logs the error; its promise is fulfilled
InstallCatch ==
    /\ wstate = "installing" /\ ipc = "catch"
    /\ ipc' = "settled"
    /\ installPromise' = "fulfilled"
    /\ UNCHANGED <<caches, netVer, wstate, installRuns, iopt, ifail, skipWaiting,
                   apc, akeys, afail, controller, units, netCalls, msgs>>

(***************************************************************************)
(* The host's side of the lifecycle (event.waitUntil, skipWaiting,         *)
(* clients.claim and the two-phase contract).                              *)
(***************************************************************************)
HostInstallSettled ==
    /\ wstate = "installing" /\ ipc = "settled"
    /\ wstate' = IF installPromise = "fulfilled" THEN "installed" ELSE "redundant"
    /\ UNCHANGED <<caches, netVer, installRuns, ipc, iopt, ifail, installPromise, skipWaiting,
                   apc, akeys, afail, controller, units, netCalls, msgs, history, appVars>>

PreviousClientsGone ==
    /\ controller = "previous"
    /\ controller' = "none"
    /\ UNCHANGED <<caches, netVer, wstate, installRuns, ipc, iopt, ifail, installPromise,
                   skipWaiting, apc, akeys, afail, units, netCalls, msgs, history, appVars>>

HostActivate ==
    /\ wstate = "installed"
    /\ skipWaiting \/ controller # "previous"
    /\ wstate' = "activating"
    /\ apc' = "keys"
    /\ afail' = FALSE
    /\ UNCHANGED <<caches, netVer, installRuns, ipc, iopt, ifail, installPromise, skipWaiting,
                   akeys, controller, units, netCalls, msgs, history, appVars>>

HostActivated ==
    /\ wstate = "activating" /\ apc = "settled"
    /\ wstate' = "activated"
    /\ UNCHANGED <<caches, netVer, installRuns, ipc, iopt, ifail, installPromise, skipWaiting,
                   apc, akeys, afail, controller, units, netCalls, msgs, history, appVars>>

\* the host installs the same script again (an update check that finds the
\* script's bytes changed, its constants the same)
HostUpdate ==
    /\ wstate = "activated"
    /\ installRuns < MaxInstalls
    /\ installRuns' = installRuns + 1
    /\ wstate' = "installing"
    /\ ipc' = "open"
    /\ iopt' = 1
    /\ ifail' = ""
    /\ installPromise' = "pending"
    /\ skipWaiting' = FALSE
    /\ apc' = "idle"
    /\ controller' = IF controller = "this" THEN "previous" ELSE controller
    /\ ilog' = <<ilog[Len(ilog)], <<>>>>
    /\ iout' = <<iout[Len(iout)]>>
    /\ UNCHANGED <<caches, netVer, akeys, afail, units, netCalls, msgs, appVars>>

(***************************************************************************)
(* The activate listener.                                                  *)
(***************************************************************************)
RECURSIVE DeleteAll(_, _)
DeleteAll(cs, names) ==
    IF names = {} THEN cs
    ELSE LET n == CHOOSE x \in names : TRUE
         IN  DeleteAll(CacheDelete(cs, n), names \ {n})

\* mutant: the names are compared with the version string, not the cache name
StaleInByVersion(names) == {names[i] : i \in {j \in DOMAIN names : names[j] # CACHE_VERSION}}

\* mutant: every listed cache is deleted, the test of the name is missing
StaleInAll(names) == {names[i] : i \in DOMAIN names}

\* the names the activate listener asks to delete
StaleIn(names) == {names[i] : i \in {j \in DOMAIN names : names[j] # CACHE_NAME}}

\* what the deletions of one activate phase leave of the store: names is what
\* caches.keys() listed, failing the names whose caches.delete() rejected
Evict(cs, names, failing) == DeleteAll(cs, StaleIn(names) \ failing)

ActivateKeys ==
    /\ wstate = "activating" /\ apc = "keys"
    /\ \E ok \in BOOLEAN :
        IF ok
        THEN akeys' = CacheKeys(caches) /\ apc' = "delete" /\ UNCHANGED afail
        ELSE akeys' = <<>> /\ apc' = "catch" /\ afail' = TRUE
    /\ UNCHANGED <<caches, netVer, wstate, installRuns, ipc, iopt, ifail, installPromise,
                   skipWaiting, controller, units, netCalls, msgs, history, appVars>>

\* mutant: the deletions are started but not waited for (the handler lacks its
\* return), so the chain goes on to clients.claim at once
ActivateDeleteNotAwaited ==
    /\ wstate = "activating" /\ apc = "delete"
    /\ \E failing \in SUBSET StaleIn(akeys) :
        /\ caches' = Evict(caches, akeys, failing)
        /\ apc' = "claim" /\ UNCHANGED afail
    /\ UNCHANGED <<netVer, wstate, installRuns, ipc, iopt, ifail, installPromise,
                   skipWaiting, akeys, controller, units, netCalls, msgs, history, appVars>>

ActivateDelete ==
    /\ wstate = "activating" /\ apc = "delete"
    /\ \E failing \in SUBSET StaleIn(akeys) :
        /\ caches' = Evict(caches, akeys, failing)
        /\ IF failing = {}
           THEN apc' = "claim" /\ UNCHANGED afail
           ELSE apc' = "catch" /\ afail' = TRUE
    /\ UNCHANGED <<netVer, wstate, installRuns, ipc, iopt, ifail, installPromise,
                   skipWaiting, akeys, controller, units, netCalls, msgs, history, appVars>>

ActivateClaim ==
    /\ wstate = "activating" /\ apc = "claim"
    /\ controller' = "this"
    /\ apc' = "settled"
    /\ UNCHANGED <<caches, netVer, wstate, installRuns, ipc, iopt, ifail, installPromise,
                   skipWaiting, akeys, afail, units, netCalls, msgs, history, appVars>>

ActivateCatch ==
    /\ wstate = "activating" /\ apc = "catch"
    /\ apc' = "settled"
    /\ UNCHANGED <<caches, netVer, wstate, installRuns, ipc, iopt, ifail, installPromise,
                   skipWaiting, akeys, afail, controller, units, netCalls, msgs, history, appVars>>

\* the site is redeployed: the network serves new content from now on
Deploy ==
    /\ netVer <= MaxDeploys
    /\ netVer' = netVer + 1
    /\ UNCHANGED <<caches, lifecycleVars, units, netCalls, msgs, history, appVars>>

(***************************************************************************)
(* The fetch listener and the three strategy executors.  A unit is one     *)
(* dispatched fetch event; its fields are the locals of the executor:      *)
(*   first          what the cache-first lookup answered                   *)
(*   net            the network response (NetError when fetch rejected)    *)
(*   store          how storing the duplicate went                         *)
(*   look1, look2   what the lookups of the catch block answered           *)
(*   hit            the cache entry the returned cached response was read    *)
(*                  from (history: a Response does not carry it)             *)
(*   result         what event.respondWith received in the end             *)
(***************************************************************************)
NetError == [origin |-> "network-error", status |-> 0, ctype |-> "", ver |-> 0, text |-> ""]
Passthrough == [origin |-> "passthrough", status |-> 0, ctype |-> "", ver |-> 0, text |-> ""]
Rejected == [origin |-> "rejected", status |-> 0, ctype |-> "", ver |-> 0, text |-> ""]
Synth503(msg) == [origin |-> "synth", status |-> 503, ctype |-> "text/plain", ver |-> 0, text |-> msg]
createOfflinePage == "Offline - Spiritual Count"
OfflineResponse ==
    [origin |-> "synth", status |-> 200, ctype |-> "text/html", ver |-> 0, text |-> createOfflinePage]

\* the host dispatches fetch events to an activated worker only
Serving == wstate = "activated" \/ installRuns > 1

SetUnit(u, rec) ==
    /\ units' = [units EXCEPT ![u] = rec]
    /\ UNCHANGED <<netVer, lifecycleVars, msgs, history, appVars>>

Finish(unit, r) == [unit EXCEPT !.pc = "done", !.result = r]

\* mutant: the branch for static assets is missing, they fall to the later branches
DispatchNoStatic(u, r) ==
    LET unit == [units[u] EXCEPT !.req = r] IN
    IF r.method # "GET" \/ r.origin # SELF_ORIGIN
    THEN /\ SetUnit(u, Finish([unit EXCEPT !.strategy = "passthrough"], Passthrough))
         /\ UNCHANGED <<caches, netCalls>>
    ELSE IF isHTMLPage(r.path)
    THEN /\ SetUnit(u, [unit EXCEPT !.strategy = "network-first-html", !.pc = "fetch",
                                    !.calls = @ + 1])
         /\ netCalls' = netCalls + 1
         /\ UNCHANGED caches
    ELSE /\ SetUnit(u, [unit EXCEPT !.strategy = "network-first", !.pc = "fetch",
                                    !.calls = @ + 1])
         /\ netCalls' = netCalls + 1
         /\ UNCHANGED caches

\* mutant: only the origin is tested, a request of any method is handled
DispatchAnyMethod(u, r) ==
    LET unit == [units[u] EXCEPT !.req = r] IN
    IF r.origin # SELF_ORIGIN
    THEN /\ SetUnit(u, Finish([unit EXCEPT !.strategy = "passthrough"], Passthrough))
         /\ UNCHANGED <<caches, netCalls>>
    ELSE IF isStaticAsset(r.path)
    THEN /\ SetUnit(u, [unit EXCEPT !.strategy = "cache-first", !.pc = "match"])
         /\ UNCHANGED <<caches, netCalls>>
    ELSE IF isHTMLPage(r.path)
    THEN /\ SetUnit(u, [unit EXCEPT !.strategy = "network-first-html", !.pc = "fetch",
                                    !.calls = @ + 1])
         /\ netCalls' = netCalls + 1
         /\ UNCHANGED caches
    ELSE /\ SetUnit(u, [unit EXCEPT !.strategy = "network-first", !.pc = "fetch",
                                    !.calls = @ + 1])
         /\ netCalls' = netCalls + 1
         /\ UNCHANGED caches

\* the listener's body: pass through, or hand the request to one strategy (the
\* executor runs up to its first await: a lookup, or a network fetch it issues)
Dispatch(u, r) ==
    LET unit == [units[u] EXCEPT !.req = r] IN
    IF r.method # "GET" \/ r.origin # SELF_ORIGIN
    THEN /\ SetUnit(u, Finish([unit EXCEPT !.strategy = "passthrough"], Passthrough))
         /\ UNCHANGED <<caches, netCalls>>
    ELSE IF isStaticAsset(r.path)
    THEN /\ SetUnit(u, [unit EXCEPT !.strategy = "cache-first", !.pc = "match"])
         /\ UNCHANGED <<caches, netCalls>>
    ELSE IF isHTMLPage(r.path)
    THEN /\ SetUnit(u, [unit EXCEPT !.strategy = "network-first-html", !.pc = "fetch",
                                    !.calls = @ + 1])
         /\ netCalls' = netCalls + 1
         /\ UNCHANGED caches
    ELSE /\ SetUnit(u, [unit EXCEPT !.strategy = "network-first", !.pc = "fetch",
                                    !.calls = @ + 1])
         /\ netCalls' = netCalls + 1
         /\ UNCHANGED caches

CanDispatch(u) ==
    /\ Serving
    /\ units[u].pc = "idle"
    /\ IF u = 1 THEN TRUE ELSE units[u - 1].pc # "idle"

\* a fetch event of the page
FetchEvent(u) == CanDispatch(u) /\ \E r \in Requests : Dispatch(u, r)

\* a fetch event for any request
FetchEventAny(u) == CanDispatch(u) /\ \E r \in AnyRequests : Dispatch(u, r)

At(u, strategy, pc) == units[u].strategy = strategy /\ units[u].pc = pc

\* what the network may answer to a fetch that settles
NetOutcomes == {NetResponse(200, netVer), NetResponse(404, netVer), NetError}

\* mutant: the executors open a cache named by the version string
OpenStepByVersion(u) ==
    /\ \E ok \in BOOLEAN :
        IF ok
        THEN /\ caches' = CacheOpen(caches, CACHE_VERSION)
             /\ SetUnit(u, [units[u] EXCEPT !.pc = "put"])
        ELSE /\ UNCHANGED caches
             /\ SetUnit(u, [units[u] EXCEPT !.pc = "catch_match", !.store = "open_rejected"])
    /\ UNCHANGED netCalls

\* storing the duplicate: caches.open(CACHE_NAME), then cache.put(request, clone)
OpenStep(u) ==
    /\ \E ok \in BOOLEAN :
        IF ok
        THEN /\ caches' = CacheOpen(caches, CACHE_NAME)
             /\ SetUnit(u, [units[u] EXCEPT !.pc = "put"])
        ELSE /\ UNCHANGED caches
             /\ SetUnit(u, [units[u] EXCEPT !.pc = "catch_match", !.store = "open_rejected"])
    /\ UNCHANGED netCalls

\* mutant: an entry that is already stored under the key is kept, not replaced
PutStepKeepsFirst(u) ==
    /\ \E ok \in BOOLEAN :
        IF ok
        THEN /\ caches' = IF units[u].req.path \in DOMAIN EntriesOf(caches, CACHE_NAME)
                          THEN caches
                          ELSE CachePut(caches, CACHE_NAME, units[u].req.path, StoredCopy(units[u].net))
             /\ SetUnit(u, Finish([units[u] EXCEPT !.store = "stored"], units[u].net))
        ELSE /\ UNCHANGED caches
             /\ SetUnit(u, [units[u] EXCEPT !.pc = "catch_match", !.store = "put_rejected"])
    /\ UNCHANGED netCalls

PutStep(u) ==
    /\ \E ok \in BOOLEAN :
        IF ok
        THEN /\ caches' = CachePut(caches, CACHE_NAME, units[u].req.path, StoredCopy(units[u].net))
             /\ SetUnit(u, Finish([units[u] EXCEPT !.store = "stored"], units[u].net))
        ELSE /\ UNCHANGED caches
             /\ SetUnit(u, [units[u] EXCEPT !.pc = "catch_match", !.store = "put_rejected"])
    /\ UNCHANGED netCalls

\* the lookup of a catch block that ends in a synthesized 503
CatchLookup(u, msg) ==
    /\ \E ok \in BOOLEAN :
        LET c == CacheMatch(caches, units[u].req.path) IN
        IF ~ok THEN SetUnit(u, Finish([units[u] EXCEPT !.look1 = "reject"], Rejected))
        ELSE IF c # Absent THEN SetUnit(u, Finish([units[u] EXCEPT !.look1 = "hit",
                                                           !.hit = MatchedIn(caches, units[u].req.path)], c))
        ELSE SetUnit(u, Finish([units[u] EXCEPT !.look1 = "miss"], Synth503(msg)))
    /\ UNCHANGED <<caches, netCalls>>

\* mutant: a hit is returned, and the asset is also fetched again to refresh it
StaticMatchRevalidate(u) ==
    /\ At(u, "cache-first", "match")
    /\ \E ok \in BOOLEAN :
        LET c == CacheMatch(caches, units[u].req.path) IN
        IF ~ok
        THEN /\ SetUnit(u, [units[u] EXCEPT !.first = "reject", !.pc = "catch_match"])
             /\ UNCHANGED netCalls
        ELSE IF c # Absent
        THEN /\ SetUnit(u, Finish([units[u] EXCEPT !.first = "hit", !.calls = @ + 1,
                                                !.hit = MatchedIn(caches, units[u].req.path)], c))
             /\ netCalls' = netCalls + 1
        ELSE /\ SetUnit(u, [units[u] EXCEPT !.first = "miss", !.pc = "fetch", !.calls = @ + 1])
             /\ netCalls' = netCalls + 1
    /\ UNCHANGED caches

\* handleStaticAsset
StaticMatch(u) ==
    /\ At(u, "cache-first", "match")
    /\ \E ok \in BOOLEAN :
        LET c == CacheMatch(caches, units[u].req.path) IN
        IF ~ok
        THEN /\ SetUnit(u, [units[u] EXCEPT !.first = "reject", !.pc = "catch_match"])
             /\ UNCHANGED netCalls
        ELSE IF c # Absent
        THEN /\ SetUnit(u, Finish([units[u] EXCEPT !.first = "hit",
                                                !.hit = MatchedIn(caches, units[u].req.path)], c))
             /\ UNCHANGED netCalls
        ELSE /\ SetUnit(u, [units[u] EXCEPT !.first = "miss", !.pc = "fetch", !.calls = @ + 1])
             /\ netCalls' = netCalls + 1
    /\ UNCHANGED caches

\* mutant: every response the network gives is stored, whatever its status
StaticFetchedStoresAny(u) ==
    /\ At(u, "cache-first", "fetch")
    /\ \E r \in NetOutcomes :
        LET unit == [units[u] EXCEPT !.net = r] IN
        IF r = NetError THEN SetUnit(u, [unit EXCEPT !.pc = "catch_match"])
        ELSE SetUnit(u, [unit EXCEPT !.pc = "open"])
    /\ UNCHANGED <<caches, netCalls>>

StaticFetched(u) ==
    /\ At(u, "cache-first", "fetch")
    /\ \E r \in NetOutcomes :
        LET unit == [units[u] EXCEPT !.net = r] IN
        IF r = NetError THEN SetUnit(u, [unit EXCEPT !.pc = "catch_match"])
        ELSE IF IsOk(r) THEN SetUnit(u, [unit EXCEPT !.pc = "open"])
        ELSE SetUnit(u, Finish(unit, r))
    /\ UNCHANGED <<caches, netCalls>>

StaticOpen(u) == At(u, "cache-first", "open") /\ OpenStep(u)
StaticPut(u) == At(u, "cache-first", "put") /\ PutStep(u)
\* mutant: the catch block answers 503 without looking into the cache again
StaticCatchNoRecheck(u) ==
    /\ At(u, "cache-first", "catch_match")
    /\ SetUnit(u, Finish([units[u] EXCEPT !.look1 = "miss"], Synth503("Asset not available offline")))
    /\ UNCHANGED <<caches, netCalls>>

StaticCatch(u) ==
    /\ At(u, "cache-first", "catch_match")
    /\ CatchLookup(u, "Asset not available offline")

\* handleHTMLPage
HtmlFetched(u) ==
    /\ At(u, "network-first-html", "fetch")
    /\ \E r \in NetOutcomes :
        LET unit == [units[u] EXCEPT !.net = r] IN
        IF r # NetError /\ IsOk(r) THEN SetUnit(u, [unit EXCEPT !.pc = "open"])
        ELSE SetUnit(u, [unit EXCEPT !.pc = "catch_match"])
    /\ UNCHANGED <<caches, netCalls>>

HtmlOpen(u) == At(u, "network-first-html", "open") /\ OpenStep(u)
HtmlPut(u) == At(u, "network-first-html", "put") /\ PutStep(u)

\* mutant: the application shell is looked up first, the page itself never
HtmlCatchMatchShellFirst(u) ==
    /\ At(u, "network-first-html", "catch_match")
    /\ \E ok \in BOOLEAN :
        LET c == CacheMatch(caches, P_index) IN
        IF ~ok THEN SetUnit(u, Finish([units[u] EXCEPT !.look1 = "reject"], Rejected))
        ELSE IF c # Absent THEN SetUnit(u, Finish([units[u] EXCEPT !.look1 = "hit",
                                                           !.hit = MatchedIn(caches, P_index)], c))
        ELSE SetUnit(u, [units[u] EXCEPT !.look1 = "miss", !.pc = "catch_index"])
    /\ UNCHANGED <<caches, netCalls>>

HtmlCatchMatch(u) ==
    /\ At(u, "network-first-html", "catch_match")
    /\ \E ok \in BOOLEAN :
        LET c == CacheMatch(caches, units[u].req.path) IN
        IF ~ok THEN SetUnit(u, Finish([units[u] EXCEPT !.look1 = "reject"], Rejected))
        ELSE IF c # Absent THEN SetUnit(u, Finish([units[u] EXCEPT !.look1 = "hit",
                                                           !.hit = MatchedIn(caches, units[u].req.path)], c))
        ELSE SetUnit(u, [units[u] EXCEPT !.look1 = "miss", !.pc = "catch_index"])
    /\ UNCHANGED <<caches, netCalls>>

\* mutant: the application shell is not looked up, the offline document is built at once
HtmlCatchIndexSkipsShell(u) ==
    /\ At(u, "network-first-html", "catch_index")
    /\ SetUnit(u, Finish([units[u] EXCEPT !.look2 = "miss"], OfflineResponse))
    /\ UNCHANGED <<caches, netCalls>>

\* mutant: with no cached page at all the request ends in the 503 of the other strategies
HtmlCatchIndex503(u) ==
    /\ At(u, "network-first-html", "catch_index")
    /\ \E ok \in BOOLEAN :
        LET c == CacheMatch(caches, P_index) IN
        IF ~ok THEN SetUnit(u, Finish([units[u] EXCEPT !.look2 = "reject"], Rejected))
        ELSE IF c # Absent THEN SetUnit(u, Finish([units[u] EXCEPT !.look2 = "hit",
                                                           !.hit = MatchedIn(caches, P_index)], c))
        ELSE SetUnit(u, Finish([units[u] EXCEPT !.look2 = "miss"], Synth503("Asset not available offline")))
    /\ UNCHANGED <<caches, netCalls>>

HtmlCatchIndex(u) ==
    /\ At(u, "network-first-html", "catch_index")
    /\ \E ok \in BOOLEAN :
        LET c == CacheMatch(caches, P_index) IN
        IF ~ok THEN SetUnit(u, Finish([units[u] EXCEPT !.look2 = "reject"], Rejected))
        ELSE IF c # Absent THEN SetUnit(u, Finish([units[u] EXCEPT !.look2 = "hit",
                                                           !.hit = MatchedIn(caches, P_index)], c))
        ELSE SetUnit(u, Finish([units[u] EXCEPT !.look2 = "miss"], OfflineResponse))
    /\ UNCHANGED <<caches, netCalls>>

\* handleNetworkFirst
OtherFetched(u) ==
    /\ At(u, "network-first", "fetch")
    /\ \E r \in NetOutcomes :
        LET unit == [units[u] EXCEPT !.net = r] IN
        IF r = NetError THEN SetUnit(u, [unit EXCEPT !.pc = "catch_match"])
        ELSE IF IsOk(r) /\ units[u].req.method = "GET" THEN SetUnit(u, [unit EXCEPT !.pc = "open"])
        ELSE SetUnit(u, Finish(unit, r))
    /\ UNCHANGED <<caches, netCalls>>

OtherOpen(u) == At(u, "network-first", "open") /\ OpenStep(u)
OtherPut(u) == At(u, "network-first", "put") /\ PutStep(u)
OtherCatch(u) ==
    /\ At(u, "network-first", "catch_match")
    /\ CatchLookup(u, "Request failed and no cached version available")

(***************************************************************************)
(* The message listener.                                                   *)
(***************************************************************************)
Reply(t, v, h, n) == [type |-> t, version |-> v, hasCache |-> h, cacheName |-> n]

CanSend(m) ==
    /\ wstate # "redundant"
    /\ msgs[m].pc = "unsent"
    /\ IF m = 1 THEN TRUE ELSE msgs[m - 1].pc # "unsent"

SetMsg(m, rec) ==
    /\ msgs' = [msgs EXCEPT ![m] = rec]
    /\ UNCHANGED <<caches, netVer, wstate, installRuns, ipc, iopt, ifail, installPromise,
                   apc, akeys, afail, controller, units, netCalls, history, appVars>>

\* mutant: the reply carries the cache name instead of the version
MsgGetVersionName(m) ==
    /\ CanSend(m)
    /\ SetMsg(m, [msgs[m] EXCEPT !.type = "GET_VERSION", !.pc = "done",
                     !.replies = Append(@, Reply("VERSION", CACHE_NAME, FALSE, ""))])
    /\ UNCHANGED skipWaiting

MsgGetVersion(m) ==
    /\ CanSend(m)
    /\ SetMsg(m, [msgs[m] EXCEPT !.type = "GET_VERSION", !.pc = "done",
                     !.replies = Append(@, Reply("VERSION", CACHE_VERSION, FALSE, ""))])
    /\ UNCHANGED skipWaiting

\* mutant: the acknowledgment is posted, the call of self.skipWaiting() is missing
MsgSkipWaitingReplyOnly(m) ==
    /\ CanSend(m)
    /\ SetMsg(m, [msgs[m] EXCEPT !.type = "SKIP_WAITING", !.pc = "done",
                     !.replies = Append(@, Reply("SKIPPED_WAITING", "", FALSE, ""))])
    /\ UNCHANGED skipWaiting

\* mutant: the case lacks its break and falls through into CACHE_STATUS
MsgSkipWaitingFallthrough(m) ==
    /\ CanSend(m)
    /\ skipWaiting' = TRUE
    /\ SetMsg(m, [msgs[m] EXCEPT !.type = "SKIP_WAITING", !.pc = "has", !.skipped = TRUE,
                     !.replies = Append(@, Reply("SKIPPED_WAITING", "", FALSE, ""))])

MsgSkipWaiting(m) ==
    /\ CanSend(m)
    /\ skipWaiting' = TRUE
    /\ SetMsg(m, [msgs[m] EXCEPT !.type = "SKIP_WAITING", !.pc = "done", !.skipped = TRUE,
                     !.replies = Append(@, Reply("SKIPPED_WAITING", "", FALSE, ""))])

MsgCacheStatus(m) ==
    /\ CanSend(m)
    /\ SetMsg(m, [msgs[m] EXCEPT !.type = "CACHE_STATUS", !.pc = "has"])
    /\ UNCHANGED skipWaiting

\* mutant: the status is asked with caches.open, which creates the cache it asks about
CacheStatusReplyOpens(m) ==
    /\ msgs[m].pc = "has"
    /\ \E ok \in BOOLEAN :
        /\ msgs' = [msgs EXCEPT ![m] =
                       [msgs[m] EXCEPT !.pc = "done",
                           !.replies = IF ok
                                       THEN Append(@, Reply("CACHE_STATUS", "", TRUE, CACHE_NAME))
                                       ELSE @]]
        /\ caches' = IF ok THEN CacheOpen(caches, CACHE_NAME) ELSE caches
    /\ UNCHANGED <<netVer, lifecycleVars, units, netCalls, history, appVars>>

\* caches.has(CACHE_NAME) settles; a rejection is handled nowhere
CacheStatusReply(m) ==
    /\ msgs[m].pc = "has"
    /\ \E ok \in BOOLEAN :
        SetMsg(m, [msgs[m] EXCEPT !.pc = "done",
                      !.replies = IF ok
                                  THEN Append(@, Reply("CACHE_STATUS", "", CacheHas(caches, CACHE_NAME), CACHE_NAME))
                                  ELSE @])
    /\ UNCHANGED skipWaiting

\* an unrecognized type, or data without a type: logged at most
MsgUnknown(m) ==
    /\ CanSend(m)
    /\ \E t \in MessageTypes \ {"GET_VERSION", "SKIP_WAITING", "CACHE_STATUS"} :
        SetMsg(m, [msgs[m] EXCEPT !.type = t, !.pc = "done"])
    /\ UNCHANGED skipWaiting

InstallAnswers ==
    {"ok", "rejected", "core_fetch", "core_status", "core_store",
     "stored", "store_failed", "not_ok", "fetch_failed"}

\* the install listener, its history not kept
InstallStep(a) ==
    /\ InstallOpen(a) \/ InstallAddAll(a) \/ InstallReopen(a) \/ InstallOptional(a)
    /\ UNCHANGED <<history, appVars>>
InstallEnd ==
    /\ InstallSkipWaiting \/ InstallCatch
    /\ UNCHANGED <<history, appVars>>

Installing == (\E a \in InstallAnswers : InstallStep(a)) \/ InstallEnd

Hosting == HostInstallSettled \/ PreviousClientsGone \/ HostActivate \/ HostActivated

Activating == ActivateKeys \/ ActivateDelete \/ ActivateClaim \/ ActivateCatch

Fetching ==
    \E u \in 1..MaxUnits :
        \/ FetchEvent(u)
        \/ StaticMatch(u) \/ StaticFetched(u) \/ StaticOpen(u) \/ StaticPut(u) \/ StaticCatch(u)
        \/ HtmlFetched(u) \/ HtmlOpen(u) \/ HtmlPut(u) \/ HtmlCatchMatch(u) \/ HtmlCatchIndex(u)
        \/ OtherFetched(u) \/ OtherOpen(u) \/ OtherPut(u) \/ OtherCatch(u)

\* the listener's switch for one message, and the continuation of its CACHE_STATUS case
ControlOf(m) ==
    \/ MsgGetVersion(m) \/ MsgSkipWaiting(m) \/ MsgCacheStatus(m)
    \/ CacheStatusReply(m) \/ MsgUnknown(m)

Control == \E m \in 1..MaxMsgs : ControlOf(m)

\* the whole worker
Next == Installing \/ Hosting \/ Activating \/ Deploy \/ Fetching \/ Control
Spec == Init /\ [][Next]_vars

\* the worker serving requests: one lifecycle pass, then fetch events
FetchNext == Installing \/ Hosting \/ Activating \/ Deploy \/ Fetching
FetchSpec == Init /\ [][FetchNext]_vars

\* the fetch listener alone, on the wider set of requests: it classifies and
\* hands over, the executors' later steps are left out
DispatchNext == Installing \/ Hosting \/ Activating \/ (\E u \in 1..MaxUnits : FetchEventAny(u))
DispatchSpec == Init /\ [][DispatchNext]_vars

\* the worker serving requests while the page sends a control message
FrameNext == Installing \/ Hosting \/ Activating \/ Fetching \/ ControlOf(1)
FrameSpec == Init /\ [][FrameNext]_vars

\* the worker serving the site's pages: fetch events for /about.html and for
\* /index.html, handled by handleHTMLPage
PageRequests == {Req("GET", SELF_ORIGIN, P_about), Req("GET", SELF_ORIGIN, P_index)}
PageEvent(u) == CanDispatch(u) /\ \E r \in PageRequests : Dispatch(u, r)
PageNext ==
    \/ Installing \/ Hosting \/ Activating \/ Deploy
    \/ \E u \in 1..MaxUnits :
          \/ PageEvent(u)
          \/ HtmlFetched(u) \/ HtmlOpen(u) \/ HtmlPut(u) \/ HtmlCatchMatch(u) \/ HtmlCatchIndex(u)
PageSpec == Init /\ [][PageNext]_vars

\* the control channel, from registration on
ControlNext == Installing \/ Hosting \/ Activating \/ Control
ControlSpec == Init /\ [][ControlNext]_vars

(***************************************************************************)
(* The lifecycle alone, over repeated installs of the same script, with    *)
(* the history of what each install phase was answered and what it left.   *)
(***************************************************************************)
CurrentView(cs) == SelectSeq(cs, LAMBDA c : c.name = CACHE_NAME)

RecordedInstallStep(a) ==
    /\ InstallOpen(a) \/ InstallAddAll(a) \/ InstallReopen(a) \/ InstallOptional(a)
    /\ ilog' = [ilog EXCEPT ![Len(ilog)] = Append(@, <<a, netVer>>)]
    /\ UNCHANGED <<iout, appVars>>

RecordedInstallEnd ==
    /\ InstallSkipWaiting \/ InstallCatch
    /\ iout' = Append(iout, CurrentView(caches))
    /\ UNCHANGED <<ilog, appVars>>

\* a deployment is what makes the host fetch the script again and start a new
\* install phase, so here the site is redeployed between install phases
LifecycleNext ==
    \/ \E a \in InstallAnswers : RecordedInstallStep(a)
    \/ RecordedInstallEnd
    \/ Hosting \/ Activating \/ HostUpdate
    \/ (ipc = "settled" /\ Deploy)
LifecycleSpec == Init /\ [][LifecycleNext]_vars

\* the worker serving requests, with the scheduling the event loop guarantees:
\* a continuation whose storage operation has settled is run, and the host
\* drives the lifecycle on; nothing makes a pending network fetch settle
UnitSteps(u) ==
    \/ StaticMatch(u) \/ StaticOpen(u) \/ StaticPut(u) \/ StaticCatch(u)
    \/ HtmlOpen(u) \/ HtmlPut(u) \/ HtmlCatchMatch(u) \/ HtmlCatchIndex(u)
    \/ OtherOpen(u) \/ OtherPut(u) \/ OtherCatch(u)
FairFetchSpec ==
    /\ FetchSpec
    /\ \A u \in 1..MaxUnits : WF_vars(UnitSteps(u))
    /\ WF_vars(Installing \/ Hosting \/ Activating)

(***************************************************************************)
(* Properties.                                                             *)
(***************************************************************************)
Units == 1..MaxUnits
Msgs == 1..MaxMsgs
Strategies == {"cache-first", "network-first-html", "network-first"}

RECURSIVE SumCalls(_)
SumCalls(n) == IF n = 0 THEN 0 ELSE units[n].calls + SumCalls(n - 1)

\* C1: a static-asset request whose first lookup finds a cached entry is answered
\* with that entry and issues no network fetch: the unit's own count of fetches is 0
\* and the network-call counter counts only the fetches of the other units.
C1_CacheHitNoNetwork ==
    /\ \A u \in Units :
        (units[u].strategy = "cache-first" /\ units[u].first = "hit") =>
            /\ units[u].pc = "done"
            /\ units[u].result.origin = "cache"
            /\ units[u].net = Absent
            /\ units[u].calls = 0
    /\ netCalls = SumCalls(MaxUnits)

C1_Witness ==
    \E u \in Units :
        /\ units[u].strategy = "cache-first" /\ units[u].first = "hit"
        /\ units[u].pc = "done" /\ units[u].result.ver = netVer

\* C2: when a core manifest entry fails to fetch or store, the promise given to
\* the install event rejects and the worker never gets past installing.
CoreFailures == {"core_fetch", "core_status", "core_store"}
C2_CoreFailureFailsInstall ==
    ifail \in CoreFailures =>
        /\ ipc = "settled" => installPromise = "rejected"
        /\ wstate \in {"installing", "redundant"}

C5_NetworkPreferred ==
    \A u \in Units :
        ( /\ units[u].strategy = "network-first-html" /\ units[u].pc = "done"
          /\ units[u].net.origin = "network" /\ IsOk(units[u].net)
          /\ CacheMatch(caches, units[u].req.path) # Absent ) =>
            units[u].result = units[u].net

\* C6: every strategy ends with a response (from the network, from the cache, or
\* synthesized) whatever the network and the cache storage answered; none rejects.
C6_AlwaysAResponse ==
    \A u \in Units :
        (units[u].strategy \in Strategies /\ units[u].pc = "done") =>
            units[u].result.origin \in {"network", "cache", "synth"}

\* C7: an HTML-page request, once intercepted, eventually ends with a response.
C7_HtmlNeverHangs ==
    \A u \in Units :
        (units[u].strategy = "network-first-html") ~> (units[u].pc = "done")

\* C8: an install phase that is answered as the phase before it was (the same
\* network answers and content, the same storage outcomes) leaves the current
\* namespace with the keys and values the phase before it left.
C8_InstallIdempotent ==
    (Len(iout) = 2 /\ ilog[2] = ilog[1]) => iout[2] = iout[1]

C8_Witness ==
    /\ Len(iout) = 2 /\ ilog[2] = ilog[1]
    /\ \E i \in DOMAIN ilog[2] : ilog[2][i][1] = "stored"
    /\ iout[2] # <<>> /\ P_style \in DOMAIN iout[2][1].entries

\* C9: GET_VERSION is answered with exactly one reply, which carries CACHE_VERSION;
\* a message of an unrecognized type, or without a type, is not answered.
C9_VersionReply ==
    \A m \in Msgs :
        /\ msgs[m].type = "GET_VERSION" =>
              msgs[m].replies = <<Reply("VERSION", CACHE_VERSION, FALSE, "")>>
        /\ msgs[m].type \in {"bogus", "none"} => msgs[m].replies = <<>>

C9_Witness ==
    \E m, n \in Msgs :
        /\ msgs[m].type = "GET_VERSION" /\ Len(msgs[m].replies) = 1
        /\ msgs[n].type = "bogus" /\ msgs[n].pc = "done"

\* C10: no control message, of whatever type and however the messages and the
\* lifecycle interleave, gets more than one reply on its port.
C10_AtMostOneReply ==
    \A m \in Msgs : Len(msgs[m].replies) <= 1

C10_Witness ==
    \E m, n \in Msgs :
        /\ m # n
        /\ msgs[m].type = "CACHE_STATUS" /\ msgs[m].pc = "done" /\ Len(msgs[m].replies) = 1
        /\ msgs[n].type = "SKIP_WAITING" /\ Len(msgs[n].replies) = 1

HasSuffix(p, s) == \E n \in 0..Len(p) : SubSeq(p, n + 1, Len(p)) = s
StaticSuffixes ==
    { <<".", "c", "s", "s">>,
      <<".", "j", "s">>,
      <<".", "j", "s", "o", "n">>,
      <<".", "i", "c", "o">>,
      <<".", "p", "n", "g">>,
      <<".", "j", "p", "g">>,
      <<".", "j", "p", "e", "g">>,
      <<".", "s", "v", "g">>,
      <<".", "w", "o", "f", "f">>,
      <<".", "w", "o", "f", "f", "2">> }
Handled(r) == r.method = "GET" /\ r.origin = SELF_ORIGIN

\* C11: the classifier maps a path to one category: StaticAsset exactly when the
\* path ends, in this very case, with one of the ten extensions; otherwise HTMLPage
\* exactly when it ends with .html or is "/"; otherwise Other.  No path is both a
\* static asset and a page; /style.css is a static asset, /about.html and / are
\* pages, /api/data is Other.  The category is read off the strategy the listener
\* hands the request to.
C11_Classifier ==
    \A u \in Units :
        units[u].strategy \in Strategies =>
            LET p == units[u].req.path
                static == \E s \in StaticSuffixes : HasSuffix(p, s)
                page == HasSuffix(p, <<".", "h", "t", "m", "l">>) \/ p = <<"/">>
            IN  /\ isStaticAsset(p) <=> static
                /\ isHTMLPage(p) <=> page
                /\ ~(isStaticAsset(p) /\ isHTMLPage(p))
                /\ units[u].strategy =
                       IF static THEN "cache-first"
                       ELSE IF page THEN "network-first-html" ELSE "network-first"
                /\ p = P_style => units[u].strategy = "cache-first"
                /\ p \in {P_about, P_root} => units[u].strategy = "network-first-html"
                /\ p = P_api => units[u].strategy = "network-first"

C11_Witness ==
    \E u, v \in Units :
        /\ units[u].req.path = <<"/", "a", ".", "C", "S", "S">> /\ units[u].strategy = "network-first"
        /\ units[v].req.path = P_root /\ units[v].strategy = "network-first-html"

\* C12: a request that is not GET, or not of the worker's origin, is passed
\* through: the listener hands it to no strategy and gives no response, issues no
\* network fetch and leaves the cache storage as it is; nothing of it is left to run.
C12_PassThrough ==
    [][ \A u \in Units :
          (units[u].pc = "idle" /\ units'[u].pc # "idle" /\ ~Handled(units'[u].req)) =>
              /\ units'[u] = [IdleUnit EXCEPT !.req = units'[u].req, !.pc = "done",
                                              !.strategy = "passthrough", !.result = Passthrough]
              /\ caches' = caches
              /\ netCalls' = netCalls ]_vars

C12_Witness ==
    \E u, v \in Units :
        /\ units[u].req.method = "POST" /\ units[u].req.origin = SELF_ORIGIN
        /\ units[u].pc = "done" /\ units[u].result = Passthrough
        /\ units[v].req.method = "GET" /\ units[v].req.origin = CDN_ORIGIN
        /\ units[v].pc = "done" /\ units[v].result = Passthrough

NetFailed(unit) == unit.net = NetError \/ (unit.net.origin = "network" /\ ~IsOk(unit.net))
Steps(u, strategy, pc) == At(u, strategy, pc) /\ units'[u].pc # pc

\* C13: an HTML-page request whose network attempt failed, or was answered with a
\* status that is not ok, is answered (a) with the entry the cache holds for the
\* request when the lookup finds one; the root document is looked up only when
\* that lookup found nothing, and (b) its entry is the answer when it is found;
\* (c) the synthesized offline document is the answer only when both found nothing.
C13_FallbackOrder ==
    [][ \A u \in Units :
          LET page == CacheMatch(caches, units[u].req.path)
              shell == CacheMatch(caches, P_index)
              ends == units'[u].pc = "done" /\ units'[u].result # Rejected
          IN  /\ (Steps(u, "network-first-html", "catch_match") /\ NetFailed(units[u])) =>
                    /\ ends => (page # Absent /\ units'[u].result = page)
                    /\ units'[u].pc = "catch_index" => page = Absent
                    /\ units'[u].pc \in {"done", "catch_index"}
              /\ (Steps(u, "network-first-html", "catch_index") /\ NetFailed(units[u])) =>
                    /\ units[u].look1 = "miss"
                    /\ units'[u].pc = "done"
                    /\ ends => units'[u].result = IF shell # Absent THEN shell ELSE OfflineResponse ]_vars

C13_Witness ==
    \E u \in Units :
        /\ units[u].strategy = "network-first-html" /\ units[u].req.path = P_about
        /\ units[u].net = NetResponse(404, netVer)
        /\ units[u].look1 = "miss" /\ units[u].look2 = "hit"
        /\ units[u].hit.key = P_index /\ units[u].result.origin = "cache"

\* C14: a static-asset request is answered from the cache only with an entry of
\* the current namespace.
C14_CurrentNamespaceOnly ==
    \A u \in Units :
        (units[u].strategy = "cache-first" /\ units[u].result.origin = "cache") =>
            units[u].hit.ns = CACHE_NAME

\* C15: a static-asset request that missed the cache and that the network answered
\* with an ok response ends with that response, its duplicate stored under the
\* request's key in the current namespace.
C15_MissStoresAndReturns ==
    \A u \in Units :
        ( /\ units[u].strategy = "cache-first" /\ units[u].first = "miss"
          /\ units[u].net.origin = "network" /\ IsOk(units[u].net)
          /\ units[u].pc = "done" ) =>
            /\ units[u].store = "stored"
            /\ units[u].result = units[u].net

\* C16: when the network attempt of a static-asset request that missed the cache
\* fails, the cache is looked up again: the answer is the entry the cache holds for
\* the request at that moment (another unit may have stored it since the miss),
\* and the synthesized 503 when it holds none.
C16_RecheckAfterFailure ==
    [][ \A u \in Units :
          LET again == CacheMatch(caches, units[u].req.path) IN
          ( /\ Steps(u, "cache-first", "catch_match")
            /\ units[u].first = "miss" /\ units[u].net = NetError
            /\ units'[u].result # Rejected ) =>
              /\ units'[u].pc = "done"
              /\ units'[u].result =
                     IF again # Absent THEN again ELSE Synth503("Asset not available offline")
              /\ again = Absent => units'[u].result.status = 503 ]_vars

C16_Witness ==
    \E u, v \in Units :
        /\ u # v /\ units[u].req = units[v].req
        /\ units[u].strategy = "cache-first" /\ units[u].first = "miss"
        /\ units[u].net = NetError /\ units[u].look1 = "hit"
        /\ units[u].hit = [ns |-> CACHE_NAME, key |-> units[u].req.path]
        /\ units[v].first = "miss" /\ units[v].store = "stored"
        /\ units[u].result = [units[v].result EXCEPT !.origin = "cache", !.ctype = "stored"]

\* C17: in the cache-first and the generic network-first strategy a network
\* response that is not ok ends the request as it was received, and no store is
\* attempted; in the HTML strategy such a response is never the answer, the
\* lookups of the fallback chain run instead; no cache entry holds a response
\* that is not ok.
C17_NotOkNotCached ==
    /\ \A u \in Units :
          (units[u].net.origin = "network" /\ ~IsOk(units[u].net)) =>
              IF units[u].strategy = "network-first-html"
              THEN /\ units[u].store = ""
                   /\ units[u].pc \in {"catch_match", "catch_index", "done"}
                   /\ units[u].pc = "done" =>
                         (units[u].result # units[u].net /\ units[u].look1 # "")
              ELSE /\ units[u].pc = "done"
                   /\ units[u].result = units[u].net
                   /\ units[u].store = "" /\ units[u].look1 = ""
    /\ \A i \in DOMAIN caches : \A k \in DOMAIN caches[i].entries :
          IsOk(caches[i].entries[k])

C17_Witness ==
    \E u, v \in Units :
        /\ u # v /\ units[u].req = units[v].req
        /\ units[v].strategy = "network-first" /\ units[v].store = "stored"
        /\ units[u].strategy = "network-first" /\ units[u].result = NetResponse(404, netVer)
        /\ CacheMatch(caches, units[u].req.path) # Absent

\* C18: a request of category Other fetches from the network first; an ok
\* response is stored in the current namespace and is the answer; when the fetch
\* fails the answer is the cached entry if the lookup finds one, the synthesized
\* 503 if it finds none.
C18_OtherNetworkFirst ==
    \A u \in Units :
        (units[u].strategy = "network-first" /\ units[u].pc = "done") =>
            /\ units[u].calls = 1 /\ units[u].net # Absent
            /\ (units[u].net.origin = "network" /\ IsOk(units[u].net)) =>
                  (units[u].store = "stored" /\ units[u].result = units[u].net)
            /\ (units[u].net = NetError /\ units[u].look1 = "hit") =>
                  units[u].result.origin = "cache"
            /\ (units[u].net = NetError /\ units[u].look1 = "miss") =>
                  units[u].result = Synth503("Request failed and no cached version available")

Current == EntriesOf(caches, CACHE_NAME)
ThisInstall == ilog[Len(ilog)]
\* the install phase got as far as the optional assets: the namespace was opened,
\* the core assets were stored, the namespace was opened again
CoreStored ==
    /\ Len(ThisInstall) >= 3
    /\ \A i \in 1..3 : ThisInstall[i][1] = "ok"

\* C19: once the core assets are stored, no failure of an optional asset (its
\* fetch rejects, its status is not ok, its store fails), of one or of several,
\* makes the install chain reject: the phase ends with the skip-waiting signal
\* and a fulfilled promise, the worker becomes installed, the core assets stay
\* stored, and every optional asset whose store succeeded is in the current
\* namespace with the content that was fetched.
C19_OptionalFailuresIgnored ==
    CoreStored =>
        /\ ifail = ""
        /\ ipc \in {"optional", "skipWaiting", "settled"}
        /\ wstate # "redundant"
        /\ ipc = "settled" => (installPromise = "fulfilled" /\ skipWaiting)
        /\ Len(ThisInstall) = 3 + Len(OPTIONAL_ASSETS) => ipc \in {"skipWaiting", "settled"}
        /\ \A i \in DOMAIN CORE_ASSETS : CORE_ASSETS[i] \in DOMAIN Current
        /\ \A i \in DOMAIN OPTIONAL_ASSETS :
              (Len(ThisInstall) >= 3 + i /\ ThisInstall[3 + i][1] = "stored") =>
                  /\ OPTIONAL_ASSETS[i] \in DOMAIN Current
                  /\ Current[OPTIONAL_ASSETS[i]] = [status |-> 200, ver |-> ThisInstall[3 + i][2]]

C19_Witness ==
    /\ CoreStored /\ Len(ThisInstall) = 5
    /\ ThisInstall[4][1] = "fetch_failed" /\ ThisInstall[5][1] = "stored"
    /\ wstate = "installed" /\ skipWaiting
    /\ P_favicon \in DOMAIN Current /\ P_manifest \notin DOMAIN Current

\* C20: while the activate phase runs, and after it, every core asset is stored
\* in the current namespace.
C20_ActivateAfterCoreStored ==
    wstate \in {"activating", "activated"} =>
        \A i \in DOMAIN CORE_ASSETS : CORE_ASSETS[i] \in DOMAIN Current

\* C21: the install phase has signalled skip-waiting only when its chain got
\* through: the core assets are stored in the current namespace, every optional
\* asset was attempted and its attempt has settled, and no link rejected; after a
\* failure of a core asset the signal is not sent.
C21_SkipWaitingOnSuccess ==
    /\ skipWaiting =>
          /\ CoreStored
          /\ Len(ThisInstall) = 3 + Len(OPTIONAL_ASSETS)
          /\ ifail = "" /\ ipc = "settled"
          /\ \A i \in DOMAIN CORE_ASSETS : CORE_ASSETS[i] \in DOMAIN Current
    /\ ifail \in CoreFailures => ~skipWaiting

C21_Witness ==
    /\ skipWaiting /\ wstate = "installing" /\ installRuns = 2
    /\ ThisInstall[4][1] = "not_ok" /\ ThisInstall[5][1] = "store_failed"

C23_CacheStatusReply ==
    [][ \A m \in Msgs :
          (msgs[m].pc = "has" /\ msgs'[m].pc = "done") =>
              msgs'[m].replies =
                  <<Reply("CACHE_STATUS", "", CacheHas(caches, CACHE_NAME), CACHE_NAME)>> ]_vars

\* C24: a SKIP_WAITING message makes the worker signal skip-waiting and gets the
\* acknowledgment as its one reply; no acknowledgment is on a port without the
\* signal having been issued for that message.
C24_SkipWaitingThenAck ==
    \A m \in Msgs :
        /\ msgs[m].type = "SKIP_WAITING" =>
              /\ msgs[m].skipped /\ skipWaiting
              /\ msgs[m].replies = <<Reply("SKIPPED_WAITING", "", FALSE, "")>>
        /\ \A i \in DOMAIN msgs[m].replies :
              msgs[m].replies[i].type = "SKIPPED_WAITING" => (msgs[m].skipped /\ skipWaiting)

C24_Witness ==
    \E m \in Msgs :
        /\ msgs[m].type = "SKIP_WAITING" /\ Len(msgs[m].replies) = 1
        /\ skipWaiting /\ wstate = "installing" /\ ipc = "addAll"

Returns(u, r) == units[u].pc # "done" /\ units'[u].pc = "done" /\ units'[u].result = r

C26_503OnlyWhenNothingElse ==
    \A u \in Units :
        ( /\ units[u].strategy \in {"cache-first", "network-first"}
          /\ units[u].pc = "done"
          /\ units[u].result.origin = "synth" /\ units[u].result.status = 503 ) =>
            /\ units[u].net = NetError
            /\ units[u].look1 = "miss"

\* C27: when a unit's store of its network response completes, the current
\* namespace, of which there is one, holds under the request's key that response
\* and nothing else changed in it, whichever other unit stored under the key
\* before; the unit's caller receives the unit's own network response, and what
\* the callers of the other units received stays as it was.
C27_LastPutWins ==
    [][ \A u \in Units :
          (units[u].pc = "put" /\ units'[u].pc = "done") =>
              LET k == units[u].req.path
                  before == EntriesOf(caches, CACHE_NAME)
                  after == EntriesOf(caches', CACHE_NAME)
              IN  /\ units'[u].result = units[u].net
                  /\ Cardinality({i \in DOMAIN caches' : caches'[i].name = CACHE_NAME}) = 1
                  /\ DOMAIN after = DOMAIN before \cup {k}
                  /\ after[k] = StoredCopy(units[u].net)
                  /\ \A j \in DOMAIN before \ {k} : after[j] = before[j]
                  /\ \A v \in Units \ {u} : units'[v] = units[v] ]_vars

C27_Witness ==
    \E u, v \in Units :
        /\ u # v /\ units[u].req = units[v].req
        /\ units[u].strategy = "cache-first" /\ units[u].first = "miss" /\ units[v].first = "miss"
        /\ units[u].store = "stored" /\ units[v].store = "stored"
        /\ units[u].net.ver # units[v].net.ver
        /\ units[u].result = units[u].net /\ units[v].result = units[v].net
        /\ EntriesOf(caches, CACHE_NAME)[units[u].req.path] = StoredCopy(units[v].net)
        /\ units[v].net.ver < netVer

\* C30: in each of the three strategies a request that the network answered with
\* an ok response ends with that response.
C30_StorageFailureKeepsNetworkResponse ==
    \A u \in Units :
        ( /\ units[u].strategy \in Strategies /\ units[u].pc = "done"
          /\ units[u].net.origin = "network" /\ IsOk(units[u].net) ) =>
            units[u].result = units[u].net

\* C28: the deletions of an activate phase that finds no stale namespace delete
\* nothing and leave the store as it is; and after an activate phase whose
\* deletions all resolved, running the phase again at once (listing the
\* namespaces, deleting the stale ones) gives the store the first run left.
C28_ActivateIdempotent ==
    [][ (wstate = "activating" /\ apc = "delete" /\ apc' # "delete") =>
          /\ Names(caches) \subseteq {CACHE_NAME} => (caches' = caches /\ apc' = "claim")
          /\ apc' = "claim" => Evict(caches', CacheKeys(caches'), {}) = caches' ]_vars

C28_Witness ==
    /\ installRuns = 2 /\ wstate = "activated" /\ ~afail
    /\ akeys = <<CACHE_NAME>> /\ Names(caches) = {CACHE_NAME}
    /\ Len(iout) = 2 /\ iout[1] # <<>>

StrategyFor(path) ==
    IF isStaticAsset(path) THEN "cache-first"
    ELSE IF isHTMLPage(path) THEN "network-first-html" ELSE "network-first"
ExecutorSteps(u, strategy) ==
    IF strategy = "cache-first"
    THEN StaticMatch(u) \/ StaticFetched(u) \/ StaticOpen(u) \/ StaticPut(u) \/ StaticCatch(u)
    ELSE IF strategy = "network-first-html"
    THEN HtmlFetched(u) \/ HtmlOpen(u) \/ HtmlPut(u) \/ HtmlCatchMatch(u) \/ HtmlCatchIndex(u)
    ELSE OtherFetched(u) \/ OtherOpen(u) \/ OtherPut(u) \/ OtherCatch(u)

\* C29: a same-origin GET request is handed, as its fetch event is dispatched, to
\* the one strategy of its category (static asset: cache-first, page:
\* network-first for pages, other: generic network-first); from then on only the
\* executor of that strategy works on it, and once the request has its response
\* nothing about it changes any more.
C29_OneStrategyOneResponse ==
    [][ \A u \in Units :
          /\ (units[u].pc = "idle" /\ units'[u].pc # "idle" /\ Handled(units'[u].req)) =>
                /\ units'[u].strategy = StrategyFor(units'[u].req.path)
                /\ units'[u].pc # "done"
          /\ (units[u].strategy \in Strategies /\ units'[u] # units[u]) =>
                /\ units'[u].strategy = units[u].strategy
                /\ units'[u].req = units[u].req
                /\ units[u].pc # "done"
                /\ ExecutorSteps(u, units[u].strategy) ]_vars

C29_Witness ==
    \E u, v \in Units :
        /\ units[u].req.path = P_style /\ units[u].strategy = "cache-first"
        /\ units[u].pc = "done" /\ units[u].result.origin = "cache"
        /\ units[v].req.path = P_api /\ units[v].req.method = "GET"
        /\ units[v].strategy = "network-first"
        /\ units[v].pc = "done" /\ units[v].result.origin = "network"

\* C31: every entry of the current namespace holds a response with an ok status,
\* whatever install, activation and the strategy executors have done so far.
C31_OnlyOkStored ==
    \A k \in DOMAIN Current : IsOk(Current[k])

\* the namespace holds what install stored (core and optional) and what a
\* strategy stored, and a later non-ok answer for the stored request left it
C31_Witness ==
    /\ Range(CORE_ASSETS) \cup {P_manifest, P_api} \subseteq DOMAIN Current
    /\ \E u \in Units :
        /\ units[u].pc = "done" /\ units[u].req = Req("GET", SELF_ORIGIN, P_api)
        /\ units[u].net = NetResponse(404, netVer) /\ units[u].result = units[u].net
        /\ Current[P_api] = [status |-> 200, ver |-> netVer]

\* C32: no step creates a namespace other than the current one, no step changes
\* the entries of another namespace, and no step removes the current namespace.
C32_OnlyCurrentNamespaceWritten ==
    [][ /\ Names(caches') \ Names(caches) \subseteq {CACHE_NAME}
        /\ \A n \in (Names(caches) \cap Names(caches')) \ {CACHE_NAME} :
              EntriesOf(caches', n) = EntriesOf(caches, n)
        /\ CACHE_NAME \in Names(caches) => CACHE_NAME \in Names(caches') ]_vars

\* activation has listed and removed a stale namespace and kept the current
\* one, to which a strategy has since written
C32_Witness ==
    /\ wstate = "activated" /\ ~afail /\ Len(akeys) = 2
    /\ Names(caches) = {CACHE_NAME}
    /\ \E u \in Units :
        /\ units[u].pc = "done" /\ units[u].store = "stored"
        /\ units[u].req.path = P_api
        /\ Current[P_api] = StoredCopy(units[u].net)

\* C33: a step of a strategy executor changes the cache store only if the
\* network has answered the unit with an ok response; the cache-first lookup and
\* the lookups of the catch blocks (cached entry, application shell, offline
\* document, 503) change nothing, and neither does any step of the message
\* listener, whatever the message.
C33_StoreChangesOnlyAfterOk ==
    [][ /\ \A u \in Units :
            (units[u].strategy \in Strategies /\ units'[u] # units[u]) =>
                /\ caches' # caches =>
                      units[u].net.origin = "network" /\ IsOk(units[u].net)
                /\ units[u].pc \in {"match", "catch_match", "catch_index"} =>
                      caches' = caches
        /\ msgs' # msgs => caches' = caches ]_vars

\* a cache-first hit, a request that ended in the synthesized 503, and a
\* CACHE_STATUS message answered while no current namespace existed
C33_Witness ==
    /\ \E u, v \in Units :
        /\ units[u].pc = "done" /\ units[u].first = "hit"
        /\ units[v].pc = "done"
        /\ units[v].result = Synth503("Request failed and no cached version available")
    /\ msgs[1].pc = "done"
    /\ msgs[1].replies = <<Reply("CACHE_STATUS", "", FALSE, CACHE_NAME)>>

\* unit u is a request for the asset k that missed the cache, got an ok network
\* response, stored it and returned it
StoredBy(u, k) ==
    /\ units[u].strategy = "cache-first" /\ units[u].pc = "done"
    /\ units[u].req.path = k /\ units[u].first = "miss"
    /\ units[u].net.origin = "network" /\ IsOk(units[u].net)
    /\ units[u].store = "stored" /\ units[u].result = units[u].net
OnlyWriter(u, k) ==
    \A w \in Units \ {u} : ~(units[w].req.path = k /\ units[w].store = "stored")

\* C34: once a request for a static asset has missed, fetched an ok response and
\* stored it, a request for the same asset whose lookup comes later never misses
\* and never calls the network; when a lookup answers (the first one, or the one
\* of the catch block after the first was rejected) the request ends with the
\* entry of the current namespace, which is the response the earlier request
\* stored unless another request has stored the asset too.
C34_SecondRequestFromCache ==
    [][ \A u, v \in Units :
          LET k == units[v].req.path
              looking == \/ units[v].pc = "match"
                         \/ units[v].pc = "catch_match" /\ units[v].first = "reject"
          IN  (u # v /\ StoredBy(u, k) /\ units[v].strategy = "cache-first"
                 /\ looking /\ units'[v] # units[v]) =>
                /\ netCalls' = netCalls /\ units'[v].calls = 0
                /\ units'[v].first \in {"hit", "reject"}
                /\ units'[v].pc = "catch_match" \/ units'[v].pc = "done"
                /\ (units'[v].pc = "done" /\ units'[v].result # Rejected) =>
                      /\ units'[v].result.origin = "cache"
                      /\ units'[v].hit = [ns |-> CACHE_NAME, key |-> k]
                      /\ units'[v].result.status = Current[k].status
                      /\ units'[v].result.ver = Current[k].ver
                      /\ OnlyWriter(u, k) =>
                            /\ units'[v].result.status = units[u].net.status
                            /\ units'[v].result.ver = units[u].net.ver ]_vars

C34_Witness ==
    \E u, v \in Units :
        /\ u # v /\ StoredBy(u, P_style) /\ units[u].net.ver = 2
        /\ units[v].strategy = "cache-first" /\ units[v].pc = "done"
        /\ units[v].req.path = P_style /\ units[v].first = "hit"
        /\ units[v].calls = 0 /\ netCalls = 1
        /\ units[v].result.origin = "cache" /\ units[v].result.ver = 2

\* unit u is a page request for k whose network fetch was ok and was stored
FetchedAndStored(u, k) ==
    /\ units[u].strategy = "network-first-html" /\ units[u].pc = "done"
    /\ units[u].req.path = k
    /\ units[u].net.origin = "network" /\ IsOk(units[u].net)
    /\ units[u].store = "stored" /\ units[u].result = units[u].net

\* C35: when a page request has fetched an ok response and stored it, and no
\* other request has stored the page, a request for the same page whose network
\* attempt failed and whose lookup answers afterwards returns that response: the
\* most recent successful network fetch of the page.
C35_OfflineReturnsLatestFetch ==
    [][ \A u, v \in Units :
          LET k == units[v].req.path IN
          (u # v /\ FetchedAndStored(u, k) /\ OnlyWriter(u, k)
             /\ At(v, "network-first-html", "catch_match") /\ NetFailed(units[v])
             /\ units'[v].look1 \in {"hit", "miss"}) =>
                /\ units'[v].pc = "done" /\ units'[v].look1 = "hit"
                /\ units'[v].result.origin = "cache"
                /\ units'[v].result.status = units[u].net.status
                /\ units'[v].result.ver = units[u].net.ver ]_vars

\* C36: a long press on the increment button of a tracker (mousedown, the
\* 1000 ms timer runs, mouseup, the click of the press) leaves the tracker's
\* count exactly 10 above what it was at mousedown.
C36_LongPressAddsTen ==
    [][ \A b \in TrackerIds :
          (app.clickDue = b /\ app.longPressTriggered[b] /\ app'.clickDue = "none") =>
              app'.trackers[b] = plog.pressCount + 10 ]_vars

\* C37: every call of handleTrackerAction leaves every count non-negative and
\* changes the named tracker only; decrement on 0 leaves 0 and otherwise
\* subtracts one, reset gives 0, increment adds 1 and increment-10 adds 10; a
\* call naming an unknown tracker id changes no tracker, calls storage.set not
\* once and leaves localStorage as it was.
C37_CountsStayNonNegative ==
    [][ clock' # clock =>
          LET id == plog'.lastCall.id
              action == plog'.lastCall.action
          IN  /\ \A t \in TrackerIds : app.trackers[t] >= 0 /\ app'.trackers[t] >= 0
              /\ \A t \in TrackerIds \ {id} : app'.trackers[t] = app.trackers[t]
              /\ id \in TrackerIds =>
                    app'.trackers[id] =
                        (IF action = "increment" THEN app.trackers[id] + 1
                         ELSE IF action = "increment-10" THEN app.trackers[id] + 10
                         ELSE IF action = "decrement" /\ app.trackers[id] = 0 THEN 0
                         ELSE IF action = "decrement" THEN app.trackers[id] - 1
                         ELSE IF action = "reset" THEN 0
                         ELSE app.trackers[id])
              /\ id \notin TrackerIds =>
                    /\ app'.trackers = app.trackers
                    /\ localStorage' = localStorage
                    /\ plog'.setCalls = plog.setCalls ]_vars

\* on a first visit, the one call so far was a decrement of a tracker at 0: the
\* count is 0 still, and the trackers were saved
C37_Witness ==
    /\ clock = 1 /\ plog.lastCall = [id |-> "morning-dhikr", action |-> "decrement"]
    /\ app.trackers = DEFAULT_TRACKERS
    /\ localStorage.trackers = DEFAULT_TRACKERS /\ plog.setCalls = 1

NewestFirst(list) == \A i \in 1..(Len(list) - 1) : list[i].time >= list[i + 1].time
Min(a, b) == IF a <= b THEN a ELSE b

\* C38: the persisted recent-counts list never has more than 10 entries and is
\* ordered newest first; it changes only in a call for increment or
\* increment-10, which puts one entry for the tracker, with the current time, at
\* the front of the entries it read and drops what lies beyond the tenth.
C38_RecentCountsBounded ==
    [][ LET old == localStorage.recent
            new == localStorage'.recent
        IN  /\ Len(old) <= RECENT_LIMIT /\ NewestFirst(old)
            /\ Len(new) <= RECENT_LIMIT /\ NewestFirst(new)
            /\ new # old =>
                  /\ plog'.lastCall.action \in {"increment", "increment-10"}
                  /\ new[1] = [tracker |-> TrackerName(plog'.lastCall.id),
                               phrase |-> TrackerPhrase(plog'.lastCall.id),
                               time |-> clock', count |-> 1]
                  /\ Len(new) = 1 \/ Len(new) = Min(RECENT_LIMIT, Len(old) + 1)
                  /\ Tail(new) = SubSeq(old, 1, Len(new) - 1) ]_vars

\* a list that held 10 entries has taken two more: the two oldest are gone
C38_Witness ==
    /\ Len(localStorage.recent) = RECENT_LIMIT
    /\ localStorage.recent[1].time = 2 /\ localStorage.recent[1].tracker = "Evening Dhikr"
    /\ localStorage.recent[2].time = 1
    /\ localStorage.recent[RECENT_LIMIT].time = 3 - RECENT_LIMIT
====
